---- MODULE Spec2Model ----
(***************************************************************************)
(* A model of the coolboy Game Boy emulator core: the memory bus with its  *)
(* cartridge bank controller (emulator/memory.rs, emulator/cartridge.rs),  *)
(* and the Emulator's timer, interrupt, LCD, DMA, joypad and frame-loop    *)
(* handlers (emulator/mod.rs, emulator/cpu/mod.rs).                        *)
(*                                                                         *)
(* The byte arrays (the 64 KiB `rom`, the 32 KiB `ram_banks`, the 2 MiB    *)
(* cartridge) are held sparsely: a function whose domain is the set of     *)
(* indexes holding a non-zero byte.  Every index outside the domain holds  *)
(* 0, so the encoding is exact and two arrays are equal exactly when their *)
(* encodings are.                                                          *)
(***************************************************************************)
EXTENDS Integers, Sequences, FiniteSets, TLC

VARIABLES
    cpu,               \* Emulator.cpu: [pc, sp]
    memory,            \* Emulator.memory: the Memory struct, as a record
    timer_counter,     \* Emulator.timer_counter: i32
    divider_counter,   \* Emulator.divider_counter: i32
    interrupt_master,  \* Emulator.interrupt_master: bool
    scanline_count,    \* Emulator.scanline_count: u16
    screen_buffer,     \* Emulator.screen_buffer, one shade per rendered line
    pressed_inputs,    \* Emulator.pressed_inputs: the Inputs bit set
    panicked,          \* the process has aborted in a panic!
    update_pc,         \* position of Emulator::update: "idle", "loop", "returned"
    elapsed_cycles,    \* the local elapsed_cycles of Emulator::update
    ticks,             \* number of timer ticks so far
    last               \* the operation that produced this state

vars == <<cpu, memory, timer_counter, divider_counter, interrupt_master,
          scanline_count, screen_buffer, pressed_inputs, panicked,
          update_pc, elapsed_cycles, ticks, last>>

----------------------------------------------------------------------------
(* Program constants.                                                      *)

RBM_ADDRESS == \h147
MEMORY_SIZE == \h10000
ROM_BANK_SIZE == \h4000
RAM_BANK_SIZE == \h2000
MAX_RAMBANK == 4
CARTRIDGE_SIZE == \h200000

TIMER_ADDRESS == \hFF05
TIMER_MODULATOR == \hFF06
TIMER_CONTROLLER == \hFF07
DIVIDER_REGISTER == \hFF04
INTERRUPT_REQUEST == \hFF0F
INTERRUPT_ENABLED == \hFFFF
SCANLINE_ADDRESS == \hFF44
LCD_STATUS_ADDRESS == \hFF41
LCD_CONTROL_ADDRESS == \hFF40
LCD_MODE2_BOUND == 376
LCD_MODE3_BOUND == 204
DMA_ADDRESS == \hFF46
PALETTE_47_ADDRESS == \hFF47
KEY_ADDRESS == \hFF00

\* The value a read yields when the read panics instead of returning a byte.
PANIC == -1

----------------------------------------------------------------------------
(* Bit operations on unsigned integers (Rust's &, |, ! on u8 / usize).     *)

RECURSIVE BitAnd(_, _)
BitAnd(a, b) ==
    IF a = 0 \/ b = 0 THEN 0
    ELSE (a % 2) * (b % 2) + 2 * BitAnd(a \div 2, b \div 2)

RECURSIVE BitOr(_, _)
BitOr(a, b) ==
    IF a = 0 THEN b
    ELSE IF b = 0 THEN a
    ELSE (IF a % 2 = 1 \/ b % 2 = 1 THEN 1 ELSE 0) + 2 * BitOr(a \div 2, b \div 2)

\* !x on a u8
Not8(x) == 255 - x

\* macro tbit!(value, bit)
tbit(value, bit) == BitAnd(value, 2 ^ bit) /= 0

\* macro ubit!(value, bit), on a u8
ubit(value, bit) == BitAnd(value, Not8(2 ^ bit))

----------------------------------------------------------------------------
(* Sparse byte arrays: array[index] and array[index] = data.               *)

ArrayGet(arr, index) == IF index \in DOMAIN arr THEN arr[index] ELSE 0

ArrayPut(arr, index, data) ==
    IF data = 0
    THEN IF index \in DOMAIN arr
         THEN [x \in (DOMAIN arr) \ {index} |-> arr[x]]
         ELSE arr
    ELSE (index :> data) @@ arr

EmptyArray == [x \in {} |-> 0]

----------------------------------------------------------------------------
(* emulator/cartridge.rs                                                   *)

\* Cartridge::read: a panic! beyond the 2 MiB image.
Cartridge_read(cart, address) ==
    IF address >= CARTRIDGE_SIZE THEN PANIC ELSE ArrayGet(cart, address)

----------------------------------------------------------------------------
(* emulator/memory.rs                                                      *)

\* Memory::init: the power-up values of the I/O registers (zero writes are
\* the array's initial content already).
Memory_init(rom) ==
    LET regs == <<
            <<\hFF10, \h80>>, <<\hFF11, \hBF>>, <<\hFF12, \hF3>>,
            <<\hFF14, \hBF>>, <<\hFF16, \h3F>>, <<\hFF19, \hBF>>,
            <<\hFF1A, \h7F>>, <<\hFF1B, \hFF>>, <<\hFF1C, \h9F>>,
            <<\hFF1E, \hBF>>, <<\hFF20, \hFF>>, <<\hFF23, \hBF>>,
            <<\hFF24, \h77>>, <<\hFF25, \hF3>>, <<\hFF26, \hF1>>,
            <<\hFF40, \h91>>, <<\hFF47, \hFC>>, <<\hFF48, \hFF>>,
            <<\hFF49, \hFF>> >>
        addrs == {regs[i][1] : i \in 1..Len(regs)}
        val(a) == (CHOOSE i \in 1..Len(regs) : regs[i][1] = a)
    IN  [a \in (DOMAIN rom) \cup addrs |->
            IF a \in addrs THEN regs[val(a)][2] ELSE rom[a]]

\* The match on the cartridge-type byte in Memory::from_file; "panic" for a
\* byte the match rejects with panic!.
RomBankModeOf(rbm_byte) ==
    CASE rbm_byte = 0 -> "No"
      [] rbm_byte \in {1, 2, 3} -> "MBC1"
      [] rbm_byte \in {5, 6} -> "MBC2"
      [] OTHER -> "panic"

\* Memory::from_file, given the cartridge read from the file.
Memory_from_file(cart) ==
    [ rom |-> Memory_init(EmptyArray),
      cart |-> cart,
      rom_bank_mode |-> RomBankModeOf(Cartridge_read(cart, RBM_ADDRESS)),
      current_rom_bank |-> 0,
      ram_banks |-> EmptyArray,
      current_ram_bank |-> 0,
      enable_ram |-> FALSE,
      enable_rom |-> FALSE ]

handle_ram_bank_enable(m, address, data) ==
    IF m.rom_bank_mode = "MBC2" /\ BitAnd(address, 16) /= 0 THEN m
    ELSE LET lower_nibble == BitAnd(data, 15)
         IN  CASE lower_nibble = 10 -> [m EXCEPT !.enable_ram = TRUE]
               [] lower_nibble = 0 -> [m EXCEPT !.enable_ram = FALSE]
               [] OTHER -> m

\* handle_change_lo_rom_bank keeping the written byte in the byte array.
lo_rom_bank_storing(m, data) ==
    LET bank0 == IF m.rom_bank_mode = "MBC2"
                 THEN BitAnd(data, 15) + 1
                 ELSE m.current_rom_bank
        lower_five == BitAnd(data, 31)
        bank1 == BitOr(BitAnd(bank0, 224), lower_five)
    IN  [m EXCEPT !.current_rom_bank = IF bank1 = 0 THEN 1 ELSE bank1,
                  !.rom = ArrayPut(@, \h2000, data)]

\* handle_change_lo_rom_bank without the step from bank 0 to bank 1.
lo_rom_bank_keeping_zero(m, data) ==
    LET bank0 == IF m.rom_bank_mode = "MBC2"
                 THEN BitAnd(data, 15) + 1
                 ELSE m.current_rom_bank
        lower_five == BitAnd(data, 31)
    IN  [m EXCEPT !.current_rom_bank = BitOr(BitAnd(bank0, 224), lower_five)]

handle_change_lo_rom_bank(m, data) ==
    LET bank0 == IF m.rom_bank_mode = "MBC2"
                 THEN BitAnd(data, 15) + 1
                 ELSE m.current_rom_bank
        lower_five == BitAnd(data, 31)
        bank1 == BitOr(BitAnd(bank0, 224), lower_five)
    IN  [m EXCEPT !.current_rom_bank = IF bank1 = 0 THEN 1 ELSE bank1]

handle_change_hi_rom_bank(m, data) ==
    LET masked_data == BitAnd(data, 224)
        bank1 == BitOr(BitAnd(m.current_rom_bank, 31), masked_data)
    IN  [m EXCEPT !.current_rom_bank = IF bank1 = 0 THEN 1 ELSE bank1]

handle_change_ram_bank(m, data) ==
    [m EXCEPT !.current_ram_bank = BitAnd(data, 3)]

handle_change_rom_ram_mode(m, data) ==
    LET bit_one == BitAnd(data, 1)
        en == (bit_one = 0)
    IN  [m EXCEPT !.enable_rom = en,
                  !.current_ram_bank = IF en THEN 0 ELSE @]

handle_banking(m, address, data) ==
    CASE address <= \h1FFF ->
            IF m.rom_bank_mode \in {"MBC1", "MBC2"}
            THEN handle_ram_bank_enable(m, address, data) ELSE m
      [] address \in \h2000..\h3FFF ->
            IF m.rom_bank_mode \in {"MBC1", "MBC2"}
            THEN handle_change_lo_rom_bank(m, data) ELSE m
      [] address \in \h4000..\h5FFF ->
            IF m.rom_bank_mode = "MBC1"
            THEN IF m.enable_rom
                 THEN handle_change_hi_rom_bank(m, data)
                 ELSE handle_change_ram_bank(m, data)
            ELSE m
      [] address \in \h6000..\h7FFF ->
            IF m.rom_bank_mode = "MBC1"
            THEN handle_change_rom_ram_mode(m, data) ELSE m
      [] OTHER -> m

\* Memory::write storing the written byte in the DIV arm.
Memory_write_keeping_div(m, address, data) ==
    CASE address <= \h7FFF -> handle_banking(m, address, data)
      [] address \in \hA000..\hBFFF ->
            IF m.enable_ram
            THEN LET translated == (address - \hA000) + m.current_ram_bank * RAM_BANK_SIZE
                 IN  [m EXCEPT !.ram_banks = ArrayPut(@, translated, data)]
            ELSE m
      [] address \in \hE000..\hFDFF ->
            [m EXCEPT !.rom = ArrayPut(ArrayPut(@, address, data), address - \h2000, data)]
      [] address \in \hFEA0..\hFEFE -> m
      [] address = \hFF44 -> [m EXCEPT !.rom = ArrayPut(@, address, 0)]
      [] OTHER -> [m EXCEPT !.rom = ArrayPut(@, address, data)]

\* Memory::write for an address below MEMORY_SIZE (every address the
\* emulator forms is: guest addresses are 16-bit, DMA stays below 0xFFA0).
\* The echo arm's recursive call lands in the default arm.
Memory_write(m, address, data) ==
    CASE address <= \h7FFF -> handle_banking(m, address, data)
      [] address \in \hA000..\hBFFF ->
            IF m.enable_ram
            THEN LET translated == (address - \hA000) + m.current_ram_bank * RAM_BANK_SIZE
                 IN  [m EXCEPT !.ram_banks = ArrayPut(@, translated, data)]
            ELSE m
      [] address \in \hE000..\hFDFF ->
            [m EXCEPT !.rom = ArrayPut(ArrayPut(@, address, data), address - \h2000, data)]
      [] address \in \hFEA0..\hFEFE -> m
      [] address = \hFF04 -> [m EXCEPT !.rom = ArrayPut(@, address, 0)]
      [] address = \hFF44 -> [m EXCEPT !.rom = ArrayPut(@, address, 0)]
      [] OTHER -> [m EXCEPT !.rom = ArrayPut(@, address, data)]

Memory_write_force(m, address, data) ==
    [m EXCEPT !.rom = ArrayPut(@, address, data)]

Memory_read_force(m, address) == ArrayGet(m.rom, address)

\* Memory::read for an address below MEMORY_SIZE; PANIC when Cartridge::read
\* panics.
Memory_read(m, address) ==
    CASE address \in \h4000..\h7FFF ->
            LET translated == (address - \h4000) + m.current_rom_bank * ROM_BANK_SIZE
            IN  Cartridge_read(m.cart, translated)
      [] address \in \hA000..\hBFFF ->
            LET translated == (address - \hA000) + m.current_ram_bank * RAM_BANK_SIZE
            IN  ArrayGet(m.ram_banks, translated)
      [] OTHER -> ArrayGet(m.rom, address)

----------------------------------------------------------------------------
(* emulator/mod.rs: the Emulator.  An operator takes the emulator as the   *)
(* record e of its fields and yields the emulator after the call.          *)

\* enum Interrupt: the discriminant is the interrupt's bit in IF and IE.
VBlank == 1
LCD == 2
Timer == 4
Joypad == 16

ALL_INTERRUPTS == <<VBlank, LCD, Timer, Joypad>>

\* bitflags Inputs
RIGHT == 1
LEFT == 2
UP == 4
DOWN == 8
A == 16
B == 32
SELECT == 64
START == 128

ALL_INPUTS == <<RIGHT, LEFT, UP, DOWN, A, B, SELECT, START>>

bit_location(input) ==
    CASE input \in {RIGHT, A} -> 0
      [] input \in {LEFT, B} -> 1
      [] input \in {UP, SELECT} -> 2
      [] input \in {DOWN, START} -> 3
      [] OTHER -> 7

select_location(input) ==
    CASE input \in {RIGHT, LEFT, UP, DOWN} -> 4
      [] input \in {A, B, SELECT, START} -> 5
      [] OTHER -> 7

\* Cpu::new
Cpu_new == [pc |-> 0, sp |-> \hFFFE]

\* Cpu::execute: the number of cycles it reports; it takes &self and leaves
\* the memory alone.
Cpu_execute(c, m) == 0

\* Emulator::from_file, given the cartridge read from the file.  On a
\* cartridge-type byte it does not know Memory::from_file panics: the
\* process aborts during construction.
Emulator_from_file(cart) ==
    [ cpu |-> Cpu_new,
      memory |-> Memory_from_file(cart),
      timer_counter |-> 0,
      divider_counter |-> 0,
      interrupt_master |-> TRUE,
      scanline_count |-> 0,
      screen_buffer |-> EmptyArray,
      pressed_inputs |-> 0,
      panicked |-> RomBankModeOf(Cartridge_read(cart, RBM_ADDRESS)) = "panic" ]

Panic(e) == [e EXCEPT !.panicked = TRUE]

RECURSIVE joypad_loop(_, _, _, _)
joypad_loop(pressed, active_select, new_state, i) ==
    IF i > Len(ALL_INPUTS) THEN new_state
    ELSE LET input == ALL_INPUTS[i]
             hit == select_location(input) = active_select
                    /\ BitAnd(pressed, input) = input
         IN  joypad_loop(pressed, active_select,
                         IF hit THEN ubit(new_state, bit_location(input)) ELSE new_state,
                         i + 1)

joypad_state(e) ==
    LET old_state == Memory_read(e.memory, KEY_ADDRESS)
        active_select == IF tbit(old_state, 4) THEN 5 ELSE 4
    IN  joypad_loop(e.pressed_inputs, active_select, ubit(255, active_select), 1)

read_memory(e, address) ==
    IF address = \hFF00 THEN joypad_state(e) ELSE Memory_read(e.memory, address)

get_clock_freq(e) == BitAnd(read_memory(e, TIMER_CONTROLLER), 3)

clock_enabled(e) == BitAnd(read_memory(e, TIMER_CONTROLLER), 4) /= 0

set_clock_freq(e) ==
    [e EXCEPT !.timer_counter =
        CASE get_clock_freq(e) = 0 -> 1024
          [] get_clock_freq(e) = 1 -> 16
          [] get_clock_freq(e) = 2 -> 64
          [] get_clock_freq(e) = 3 -> 256]

\* The arms of Emulator::write_memory other than DMA_ADDRESS.
write_memory_plain(e, address, data) ==
    IF address = TIMER_CONTROLLER
    THEN LET current_freq == get_clock_freq(e)
             e1 == [e EXCEPT !.memory = Memory_write(@, address, data)]
             new_freq == get_clock_freq(e1)
         IN  IF current_freq /= new_freq THEN set_clock_freq(e1) ELSE e1
    ELSE [e EXCEPT !.memory = Memory_write(@, address, data)]

\* The body of the loop of Emulator::dma_transfer for one i.
dma_step(e, address, i) ==
    LET data == read_memory(e, address + i)
    IN  IF data = PANIC THEN Panic(e)
        ELSE write_memory_plain(e, \hFE00 + i, data)

\* Iterations lo..hi-1 of the loop of Emulator::dma_transfer, in order:
\* those of the lower half of the range, then, unless one of them
\* panicked, those of the upper half.
RECURSIVE dma_loop(_, _, _, _)
dma_loop(e, address, lo, hi) ==
    IF lo >= hi THEN e
    ELSE IF hi = lo + 1 THEN dma_step(e, address, lo)
    ELSE LET mid == (lo + hi) \div 2
             e1 == dma_loop(e, address, lo, mid)
         IN  IF e1.panicked THEN e1 ELSE dma_loop(e1, address, mid, hi)

\* dma_transfer stopping one byte early.
dma_transfer_short(e, data) == dma_loop(e, data * 256, 0, \h9F)

dma_transfer(e, data) == dma_loop(e, data * 256, 0, \hA0)

write_memory(e, address, data) ==
    IF address = DMA_ADDRESS THEN dma_transfer(e, data)
    ELSE write_memory_plain(e, address, data)

\* Both are empty in the source.
push_stack16(e, data) == e

\* request_interrupt storing the interrupt's bit alone.
request_interrupt_alone(e, interrupt) ==
    write_memory(e, INTERRUPT_REQUEST, interrupt)

request_interrupt(e, interrupt) ==
    LET req == read_memory(e, INTERRUPT_REQUEST)
        req_set == BitOr(req, interrupt)
    IN  write_memory(e, INTERRUPT_REQUEST, req_set)

service_interrupt(e, interrupt) ==
    LET e1 == [e EXCEPT !.interrupt_master = FALSE]
        req == read_memory(e1, INTERRUPT_REQUEST)
        req_unset == BitAnd(req, Not8(interrupt))
        e2 == write_memory(e1, INTERRUPT_REQUEST, req_unset)
        e3 == push_stack16(e2, e2.cpu.pc)
    IN  [e3 EXCEPT !.cpu.pc =
            CASE interrupt = VBlank -> \h40
              [] interrupt = LCD -> \h48
              [] interrupt = Timer -> \h50
              [] interrupt = Joypad -> \h60]

RECURSIVE interrupts_loop(_, _, _, _)
interrupts_loop(e, req, enabled, i) ==
    IF i > Len(ALL_INTERRUPTS) THEN e
    ELSE LET interrupt == ALL_INTERRUPTS[i]
             e1 == IF BitOr(req, interrupt) /= 0 /\ BitOr(enabled, interrupt) /= 0
                   THEN service_interrupt(e, interrupt) ELSE e
         IN  interrupts_loop(e1, req, enabled, i + 1)

handle_interrupts(e) ==
    IF e.interrupt_master
    THEN interrupts_loop(e, read_memory(e, INTERRUPT_REQUEST),
                         read_memory(e, INTERRUPT_ENABLED), 1)
    ELSE e

handle_divider_register(e, cycles) ==
    LET dc == e.divider_counter + cycles
    IN  IF dc >= 255
        THEN LET byte == read_memory(e, DIVIDER_REGISTER)
             IN  [e EXCEPT !.divider_counter = 0,
                           !.memory = Memory_write_force(@, DIVIDER_REGISTER, byte)]
        ELSE [e EXCEPT !.divider_counter = dc]

update_timers(e, cycles) ==
    LET e1 == handle_divider_register(e, cycles)
    IN  IF clock_enabled(e1)
        THEN LET e2 == [e1 EXCEPT !.timer_counter = @ - cycles]
             IN  IF e2.timer_counter <= 0
                 THEN LET e3 == set_clock_freq(e2)
                          value == read_memory(e3, TIMER_ADDRESS)
                      IN  IF value = \hFF
                          THEN request_interrupt(write_memory(e3, TIMER_ADDRESS, \hFF), Timer)
                          ELSE write_memory(e3, TIMER_ADDRESS, value + 1)
                 ELSE e2
        ELSE e1

----------------------------------------------------------------------------
(* emulator/mod.rs: the LCD.  screen_buffer is held as its pixel column 0: *)
(* screen_buffer[0][line][0], sparse like the byte arrays.                 *)

\* macro gbit!(value, bit)
gbit(value, bit) == (value \div (2 ^ bit)) % 2

lcd_enabled(e) == BitAnd(read_memory(e, LCD_CONTROL_ADDRESS), 128) /= 0

\* Emulator::get_color followed by Color::rgb: the red component.
get_color(e, color_num, address) ==
    LET palette == read_memory(e, address)
        hi == 2 * color_num + 1
        lo == 2 * color_num
        color == 2 * gbit(palette, hi) + gbit(palette, lo)
    IN  CASE color = 0 -> \hFF
          [] color = 1 -> \hCC
          [] color = 2 -> \h77
          [] color = 3 -> \h00

\* Emulator::render_tiles for pixel 0 of the line, in the order of the
\* code; each stage takes the locals computed so far as its parameters.
\* The u8 sums are taken modulo 256; the scroll and window registers are 0
\* in every state the specifications below reach, so no sum overflows there.

\* line_offset, data1, data2, color_bit, color_num, the colour and the store.
render_tiles_store(e, scanline, pos_y, pos_x, tile_location) ==
    LET line_offset == (pos_y % 8) * 2
        data1 == read_memory(e, tile_location + line_offset)
        data2 == read_memory(e, tile_location + line_offset + 1)
        color_bit == 7 - (pos_x % 8)
        color_num == 2 * gbit(data2, color_bit) + gbit(data1, color_bit)
    IN  IF scanline > 143 THEN e
        ELSE [e EXCEPT !.screen_buffer =
                 ArrayPut(@, scanline, get_color(e, color_num, PALETTE_47_ADDRESS))]

\* tile_num from the byte of the tile map, and tile_location.
render_tiles_tile(e, scanline, signed, pos_y, pos_x, raw) ==
    LET tile_num == IF signed /\ raw >= 128 THEN raw - 256 ELSE raw
    IN  render_tiles_store(e, scanline, pos_y, pos_x,
                           IF signed THEN (tile_num + 128) * 16 ELSE tile_num * 16)

\* tile_row, tile_column, tile_address and the read of the tile map.
render_tiles_pixel(e, scanline, signed, background_memory, pos_y, pos_x) ==
    render_tiles_tile(e, scanline, signed, pos_y, pos_x,
        read_memory(e, background_memory + (pos_y \div 8) * 32 + (pos_x \div 8)))

\* signed, background_memory, pos_y, and pos_x for pixel 0.
render_tiles_line(e, scanline, lcd_control, scroll_y, scroll_x, window_y, window_x, using_window) ==
    render_tiles_pixel(e, scanline, ~tbit(lcd_control, 4),
        IF (using_window /\ tbit(lcd_control, 3))
           \/ (~using_window /\ tbit(lcd_control, 6))
        THEN \h9C00 ELSE \h9800,
        IF using_window THEN scanline - window_y ELSE (scroll_y + scanline) % 256,
        IF using_window /\ 0 >= window_x THEN 0 - window_x ELSE (0 + scroll_x) % 256)

render_tiles(e) ==
    LET window_y == read_memory(e, \hFF4A)
        scanline == read_memory(e, SCANLINE_ADDRESS)
        lcd_control == read_memory(e, LCD_CONTROL_ADDRESS)
    IN  render_tiles_line(e, scanline, lcd_control,
                          read_memory(e, \hFF42), read_memory(e, \hFF43),
                          window_y, read_memory(e, \hFF4B),
                          tbit(lcd_control, 5) /\ window_y <= scanline)

\* Emulator::render_sprites: its pixel loop, `for tile_pixel in 7..0`, is
\* empty, so it writes nothing to screen_buffer.
render_sprites(e) == e

\* draw_scanline after its render_tiles.
draw_scanline_sprites(e, control) ==
    IF tbit(control, 1) THEN render_sprites(e) ELSE e

draw_scanline(e) ==
    LET control == read_memory(e, LCD_CONTROL_ADDRESS)
    IN  draw_scanline_sprites(IF tbit(control, 0) THEN render_tiles(e) ELSE e, control)

\* The mode set_lcd_status computes.
lcd_mode(current_line, count) ==
    IF current_line >= 144 THEN 1
    ELSE IF count >= LCD_MODE2_BOUND THEN 2
    ELSE IF count >= LCD_MODE3_BOUND THEN 3
    ELSE 0

\* lcd_coincidence leaving STAT bit 2 as it is on a line other than LYC.
lcd_coincidence_sticky(e, status, current_line) ==
    LET game_scanline == read_memory(e, \hFF45)
        new_status == BitOr(status, 4)
    IN  IF current_line = game_scanline
        THEN write_memory(IF BitAnd(new_status, 64) /= 0
                          THEN request_interrupt(e, LCD) ELSE e,
                          LCD_STATUS_ADDRESS, new_status)
        ELSE write_memory(e, LCD_STATUS_ADDRESS, status)

\* set_lcd_status from `let game_scanline` on.
lcd_coincidence(e, status, current_line) ==
    LET game_scanline == read_memory(e, \hFF45)
        new_status == BitOr(status, 4)
    IN  IF current_line = game_scanline
        THEN write_memory(IF BitAnd(new_status, 64) /= 0
                          THEN request_interrupt(e, LCD) ELSE e,
                          LCD_STATUS_ADDRESS, new_status)
        ELSE write_memory(e, LCD_STATUS_ADDRESS, BitAnd(status, 251))

\* The else arm of set_lcd_status: the LCD is enabled.
lcd_on_status(e, status, current_line, mode) ==
    LET current_mode == BitAnd(status, 3)
        req_int == IF mode \in {0, 1, 2}
                   THEN BitAnd(status, 2 ^ (3 + mode)) /= 0
                   ELSE FALSE
    IN  lcd_coincidence(IF req_int /\ mode /= current_mode
                        THEN request_interrupt(e, LCD) ELSE e,
                        status, current_line)

\* lcd_off_status leaving the line where it is.
lcd_off_status_keeping_line(e, status) ==
    write_memory([e EXCEPT !.scanline_count = 456],
                 LCD_STATUS_ADDRESS, BitOr(BitAnd(status, 252), 1))

\* The then arm of set_lcd_status: the LCD is disabled.
lcd_off_status(e, status) ==
    write_memory([e EXCEPT !.scanline_count = 456,
                           !.memory = Memory_write_force(@, SCANLINE_ADDRESS, 0)],
                 LCD_STATUS_ADDRESS, BitOr(BitAnd(status, 252), 1))

set_lcd_status(e) ==
    LET status == read_memory(e, LCD_STATUS_ADDRESS)
        current_line == read_memory(e, SCANLINE_ADDRESS)
    IN  IF ~lcd_enabled(e) THEN lcd_off_status(e, status)
        ELSE lcd_on_status(e, status, current_line,
                           lcd_mode(current_line, e.scanline_count))

\* next_line_at wrapping LY one line late (new_line > 154).
next_line_late_wrap(e, new_line) ==
    LET e1 == [e EXCEPT !.memory = Memory_write_force(@, SCANLINE_ADDRESS, new_line),
                        !.scanline_count = 456]
    IN  IF new_line = 144 THEN request_interrupt(e1, VBlank)
        ELSE IF new_line > 154
             THEN [e1 EXCEPT !.memory = Memory_write_force(@, SCANLINE_ADDRESS, 0)]
        ELSE IF new_line < 144 THEN draw_scanline(e1)
        ELSE e1

\* next_line_at requesting VBlank one line late (new_line = 145).
next_line_vblank_late(e, new_line) ==
    LET e1 == [e EXCEPT !.memory = Memory_write_force(@, SCANLINE_ADDRESS, new_line),
                        !.scanline_count = 456]
    IN  IF new_line = 145 THEN request_interrupt(e1, VBlank)
        ELSE IF new_line > 153
             THEN [e1 EXCEPT !.memory = Memory_write_force(@, SCANLINE_ADDRESS, 0)]
        ELSE IF new_line < 144 THEN draw_scanline(e1)
        ELSE e1

\* The body of `if self.scanline_count <= 0` in Emulator::update_graphics
\* from the write of new_line on.
next_line_at(e, new_line) ==
    LET e1 == [e EXCEPT !.memory = Memory_write_force(@, SCANLINE_ADDRESS, new_line),
                        !.scanline_count = 456]
    IN  IF new_line = 144 THEN request_interrupt(e1, VBlank)
        ELSE IF new_line > 153
             THEN [e1 EXCEPT !.memory = Memory_write_force(@, SCANLINE_ADDRESS, 0)]
        ELSE IF new_line < 144 THEN draw_scanline(e1)
        ELSE e1

\* The body of `if self.scanline_count <= 0` in Emulator::update_graphics.
next_line(e) == next_line_at(e, read_memory(e, SCANLINE_ADDRESS) + 1)

\* Whether `self.scanline_count -= cycles` overflows the u16, in the state
\* set_lcd_status leaves.
count_underflows(e, cycles) == lcd_enabled(e) /\ cycles > e.scanline_count

scanline_underflows(e, cycles) == count_underflows(set_lcd_status(e), cycles)

\* Emulator::update_graphics after the subtraction.
update_graphics_line(e) ==
    IF e.scanline_count <= 0 THEN next_line(e) ELSE e

\* Emulator::update_graphics after set_lcd_status.
update_graphics_count(e, cycles, overflow) ==
    IF lcd_enabled(e)
    THEN IF cycles > e.scanline_count /\ overflow = "panic" THEN Panic(e)
         ELSE update_graphics_line(
                  [e EXCEPT !.scanline_count = (@ - cycles) % 65536])
    ELSE e

\* Emulator::update_graphics.  overflow says what the u16 subtraction does
\* when it overflows: "panic" (a build with overflow checks) or "wrap" (a
\* build without).
update_graphics(e, cycles, overflow) ==
    update_graphics_count(set_lcd_status(e), cycles, overflow)

----------------------------------------------------------------------------
(* emulator/mod.rs: the joypad.                                            *)

input_down(e, input) ==
    LET was_unset == BitAnd(e.pressed_inputs, input) /= 0
        e1 == [e EXCEPT !.pressed_inputs = BitOr(@, input)]
        keys == Memory_read(e1.memory, KEY_ADDRESS)
        need_interrupt == was_unset /\ tbit(keys, select_location(input))
    IN  IF need_interrupt THEN request_interrupt(e1, Joypad) ELSE e1

input_up(e, input) ==
    [e EXCEPT !.pressed_inputs = BitAnd(@, Not8(input))]

----------------------------------------------------------------------------
(* emulator/cpu/mod.rs and Emulator::update: the frame loop.               *)

\* The bound of `while elapsed_cycles < 69905`.
FRAME_CYCLES == 69905

----------------------------------------------------------------------------
(* The state machine.                                                      *)

\* The emulator as the record the operators above take.
Self ==
    [ cpu |-> cpu, memory |-> memory, timer_counter |-> timer_counter,
      divider_counter |-> divider_counter, interrupt_master |-> interrupt_master,
      scanline_count |-> scanline_count, screen_buffer |-> screen_buffer,
      pressed_inputs |-> pressed_inputs, panicked |-> panicked ]

\* The next state holds the emulator e.
Becomes(e) ==
    /\ cpu' = e.cpu
    /\ memory' = e.memory
    /\ timer_counter' = e.timer_counter
    /\ divider_counter' = e.divider_counter
    /\ interrupt_master' = e.interrupt_master
    /\ scanline_count' = e.scanline_count
    /\ screen_buffer' = e.screen_buffer
    /\ pressed_inputs' = e.pressed_inputs
    /\ panicked' = e.panicked

\* The first n elements of a sequence, as a set.
Prefix(seq, n) == {seq[i] : i \in 1..(IF n < Len(seq) THEN n ELSE Len(seq))}

\* Nothing runs after a panic, nor while Emulator::update has not returned.
Idle == ~panicked /\ update_pc /= "loop"

(* Bounds of the model: how many of the candidate inputs each             *)
(* specification draws, and how far the capped counters run.               *)
NData == 4
NBankAddrs == 5
NMemAddrs == 4
NTimerData == 3
NTimerTicks == 2
MaxTicks == 3
NPpuData == 2
NDmaPages == 3
NDmaData == 1
NIrqData == 3
NJoyData == 3
NJoyButtons == 3
NUnknownTypes == 2
NStatData == 2
NLycData == 1
NStatTicks == 1

\* Cartridge images: a cartridge-type byte at 0x147, and a distinct non-zero
\* byte at the first and the last offset of some of the 128 16 KiB banks
\* (every other byte of the image is 0).
CartTypes == {0, 1, 5}

CartBanks == {0, 1, 2, 5, 10, 32, 33, 37, 42, 127}

CartProbes == {bank * ROM_BANK_SIZE + k : bank \in CartBanks, k \in {0, ROM_BANK_SIZE - 1}}

CartByte(off) == 1 + (((off \div ROM_BANK_SIZE) * 2 + (off % 2)) % 255)

CartImage(rbm_byte) ==
    ArrayPut([off \in CartProbes |-> CartByte(off)], RBM_ADDRESS, rbm_byte)

\* Guest bytes and addresses the specifications draw from.
DataList == <<0, 5, 32, 138, 65, 255>>          \* 0x00 0x05 0x20 0x8A 0x41 0xFF
Data == Prefix(DataList, NData)

BankAddrList == <<\h2000, \h4000, \h6000, \h0000, \h0010, \h3FFF>>
BankAddrs == Prefix(BankAddrList, NBankAddrs)

MemAddrList == <<\hC123, \hE123, \hA000, \h0000, \hDDFF, \hFDFF>>
MemAddrs == Prefix(MemAddrList, NMemAddrs)

\* The state after Emulator::from_file on a cartridge whose type byte is
\* one of types.
InitWith(types) ==
    /\ \E rbm_byte \in types :
          LET e == Emulator_from_file(CartImage(rbm_byte))
          IN  /\ cpu = e.cpu
              /\ memory = e.memory
              /\ timer_counter = e.timer_counter
              /\ divider_counter = e.divider_counter
              /\ interrupt_master = e.interrupt_master
              /\ scanline_count = e.scanline_count
              /\ screen_buffer = e.screen_buffer
              /\ pressed_inputs = e.pressed_inputs
              /\ panicked = e.panicked
    /\ update_pc = "idle"
    /\ elapsed_cycles = 0
    /\ ticks = 0
    /\ last = [op |-> "init", addr |-> 0, data |-> 0]

Init == InitWith(CartTypes)

\* The timer and the LCD never look at the cartridge: their specifications
\* start from an MBC1 cartridge.
InitMbc1 == InitWith({1})

\* The guest (the running program) writes data to address: write_memory.
WriteStep(address, data) ==
    /\ Idle
    /\ Becomes(write_memory(Self, address, data))
    /\ last' = [op |-> "write", addr |-> address, data |-> data]
    /\ UNCHANGED <<update_pc, elapsed_cycles>>

GuestWrite(address, data) == WriteStep(address, data) /\ UNCHANGED ticks

\* Cartridge banking: guest writes into the ROM region.
NextBank == \E address \in BankAddrs, data \in Data : GuestWrite(address, data)

SpecBank == Init /\ [][NextBank]_vars

\* Work RAM, echo RAM and external RAM.
NextMem == \E address \in MemAddrs, data \in Data : GuestWrite(address, data)

SpecMem == Init /\ [][NextMem]_vars

\* The timer: guest writes to DIV, TIMA, TMA and TAC, and timer ticks.
TimerAddrs == {DIVIDER_REGISTER, TIMER_ADDRESS, TIMER_MODULATOR, TIMER_CONTROLLER}

TimerDataList == <<255, 5, 171, 0, 6, 254>>     \* 0xFF 0x05 0xAB 0x00 0x06 0xFE
TimerData == Prefix(TimerDataList, NTimerData)

TimerTickList == <<16, 40, 4, 255>>
TimerTicks == Prefix(TimerTickList, NTimerTicks)

\* A caller feeds cycles to the timer: update_timers.
TimerTick(cycles) ==
    /\ Idle
    /\ ticks < MaxTicks
    /\ Becomes(update_timers(Self, cycles))
    /\ ticks' = ticks + 1
    /\ last' = [op |-> "timer", addr |-> 0, data |-> cycles]
    /\ UNCHANGED <<update_pc, elapsed_cycles>>

NextTimer ==
    \/ \E address \in TimerAddrs, data \in TimerData : GuestWrite(address, data)
    \/ \E cycles \in TimerTicks : TimerTick(cycles)

SpecTimer == InitMbc1 /\ [][NextTimer]_vars

\* The LCD: guest writes to LCDC, and PPU ticks of no cycles (what
\* Cpu::execute reports) and of one whole line.
PpuDataList == <<17, 145, 144, 16>>             \* 0x11 0x91 0x90 0x10
PpuData == Prefix(PpuDataList, NPpuData)

PpuTicks == {0, 456}

\* A guest write among the first MaxTicks operations on the LCD.
EarlyWrite(address, data) ==
    /\ ticks < MaxTicks
    /\ WriteStep(address, data)
    /\ ticks' = ticks + 1

\* A caller feeds cycles to the LCD: update_graphics.  Where the u16
\* subtraction overflows, the build decides between a panic and a wrap.
\* After a wrap scanline_count exceeds the 456 of a scanline for thousands
\* of ticks: those are followed only among the first MaxTicks operations.
PpuTick(cycles) ==
    /\ Idle
    /\ scanline_count <= 456 \/ ticks < MaxTicks
    /\ \E overflow \in (IF scanline_underflows(Self, cycles)
                        THEN {"panic", "wrap"} ELSE {"wrap"}) :
          Becomes(update_graphics(Self, cycles, overflow))
    /\ ticks' = IF ticks < MaxTicks THEN ticks + 1 ELSE ticks
    /\ last' = [op |-> "ppu", addr |-> 0, data |-> cycles]
    /\ UNCHANGED <<update_pc, elapsed_cycles>>

NextPpu ==
    \/ \E data \in PpuData : EarlyWrite(LCD_CONTROL_ADDRESS, data)
    \/ GuestWrite(INTERRUPT_REQUEST, 0)
    \/ \E cycles \in PpuTicks : PpuTick(cycles)

SpecPpu == InitMbc1 /\ [][NextPpu]_vars

\* The host presses and releases a button: input_down, input_up.
InputDown(input) ==
    /\ Idle
    /\ Becomes(input_down(Self, input))
    /\ last' = [op |-> "input_down", addr |-> 0, data |-> input]
    /\ UNCHANGED <<update_pc, elapsed_cycles, ticks>>

InputUp(input) ==
    /\ Idle
    /\ Becomes(input_up(Self, input))
    /\ last' = [op |-> "input_up", addr |-> 0, data |-> input]
    /\ UNCHANGED <<update_pc, elapsed_cycles, ticks>>

\* OAM DMA: guest writes that fill the source pages and select a ROM bank,
\* a button for the joypad register of page 0xFF, and the writes to 0xFF46.
DmaPageList == <<\hC0, \h40, \hFF, \hA0, \hFE, \h00, \h80>>
DmaPages == Prefix(DmaPageList, NDmaPages)

DmaFillAddrs == {\hC000, \hC09F, \hA000, \h0000, \h2000}

DmaDataList == <<\h0A, \h05, \h91>>
DmaData == Prefix(DmaDataList, NDmaData)

NextDma ==
    \/ \E page \in DmaPages : GuestWrite(DMA_ADDRESS, page)
    \/ \E address \in DmaFillAddrs, data \in DmaData : GuestWrite(address, data)
    \/ InputDown(RIGHT)

SpecDma == InitMbc1 /\ [][NextDma]_vars

\* The frame loop.  Emulator::update runs on the one thread of the program:
\* from its call to its return nothing else runs.
Update_call ==
    /\ Idle
    /\ update_pc' = "loop"
    /\ elapsed_cycles' = 0
    /\ last' = [op |-> "update", addr |-> 0, data |-> 0]
    /\ UNCHANGED <<cpu, memory, timer_counter, divider_counter, interrupt_master,
                   scanline_count, screen_buffer, pressed_inputs, panicked, ticks>>

\* One evaluation of the loop condition of Emulator::update, and the body
\* or the return that follows it.
Update_loop ==
    /\ ~panicked
    /\ update_pc = "loop"
    /\ IF elapsed_cycles < FRAME_CYCLES
       THEN /\ elapsed_cycles' = elapsed_cycles + Cpu_execute(cpu, memory)
            /\ update_pc' = "loop"
       ELSE /\ update_pc' = "returned"
            /\ elapsed_cycles' = elapsed_cycles
    /\ UNCHANGED <<cpu, memory, timer_counter, divider_counter, interrupt_master,
                   scanline_count, screen_buffer, pressed_inputs, panicked, ticks, last>>

Buttons == {ALL_INPUTS[i] : i \in 1..Len(ALL_INPUTS)}

NextFrame ==
    \/ \E input \in Buttons : InputDown(input)
    \/ \E input \in Buttons : InputUp(input)
    \/ Update_call
    \/ Update_loop

\* The loop of a running update is always scheduled: it is the only code
\* the thread runs.
SpecFrame == Init /\ [][NextFrame]_vars /\ WF_vars(Update_loop)

\* Interrupt dispatch: guest writes to IF and IE, handle_interrupts, and
\* service_interrupt on its own.
IrqDataList == <<\h05, \h10, \h1F, \h00, \h01, \h12>>
IrqData == Prefix(IrqDataList, NIrqData)

HandleInterrupts ==
    /\ Idle
    /\ Becomes(handle_interrupts(Self))
    /\ last' = [op |-> "interrupts", addr |-> 0, data |-> 0]
    /\ UNCHANGED <<update_pc, elapsed_cycles, ticks>>

ServiceInterrupt(interrupt) ==
    /\ Idle
    /\ Becomes(service_interrupt(Self, interrupt))
    /\ last' = [op |-> "service", addr |-> 0, data |-> interrupt]
    /\ UNCHANGED <<update_pc, elapsed_cycles, ticks>>

NextIrq ==
    \/ \E data \in IrqData : GuestWrite(INTERRUPT_REQUEST, data)
    \/ \E data \in IrqData : GuestWrite(INTERRUPT_ENABLED, data)
    \/ HandleInterrupts
    \/ \E i \in 1..Len(ALL_INTERRUPTS) : ServiceInterrupt(ALL_INTERRUPTS[i])

SpecIrq == InitMbc1 /\ [][NextIrq]_vars

\* The joypad: guest writes of the row select to 0xFF00, presses and
\* releases, and guest writes that clear IF.
JoyDataList == <<\h10, \h20, \h30, \h00, \h3F>>
JoyData == Prefix(JoyDataList, NJoyData)

JoyButtonList == <<A, RIGHT, START, DOWN, B>>
JoyButtons == Prefix(JoyButtonList, NJoyButtons)

NextJoypad ==
    \/ \E data \in JoyData : GuestWrite(KEY_ADDRESS, data)
    \/ GuestWrite(INTERRUPT_REQUEST, 0)
    \/ \E input \in JoyButtons : InputDown(input)
    \/ \E input \in JoyButtons : InputUp(input)

SpecJoypad == InitMbc1 /\ [][NextJoypad]_vars

\* Construction from any cartridge: the types Memory::from_file knows and
\* some it does not, followed by the bank-controller writes.
KnownTypes == {0, 1, 2, 3, 5, 6}

UnknownTypeList == <<\h04, \hFF, \h13, \h07>>
UnknownTypes == Prefix(UnknownTypeList, NUnknownTypes)

InitLoad == InitWith(KnownTypes \cup UnknownTypes)

SpecLoad == InitLoad /\ [][NextBank]_vars

\* The frame loop with interrupts pending: guest writes to IF and IE,
\* presses and releases, then a call of Emulator::update.
NextStep ==
    \/ \E input \in JoyButtons : InputDown(input)
    \/ \E input \in JoyButtons : InputUp(input)
    \/ \E data \in IrqData : GuestWrite(INTERRUPT_REQUEST, data)
    \/ \E data \in IrqData : GuestWrite(INTERRUPT_ENABLED, data)
    \/ Update_call
    \/ Update_loop

SpecStep == InitMbc1 /\ [][NextStep]_vars /\ WF_vars(Update_loop)

\* The LCD status: guest writes to STAT and LYC, PPU ticks of no cycles and
\* of one whole line, and, among the first MaxTicks operations, PPU ticks
\* of one instruction (20 or 16 T-states, which do not divide the 456 of a
\* line).
NextStat ==
    \/ \E data \in Prefix(<<\h20, \h40, \h10, \h78>>, NStatData) :
          EarlyWrite(LCD_STATUS_ADDRESS, data)
    \/ \E data \in Prefix(<<1, 0, 144>>, NLycData) : EarlyWrite(\hFF45, data)
    \/ GuestWrite(INTERRUPT_REQUEST, 0)
    \/ \E cycles \in PpuTicks : PpuTick(cycles)
    \/ \E cycles \in Prefix(<<20, 16>>, NStatTicks) :
          ticks < MaxTicks /\ PpuTick(cycles)

SpecStat == InitMbc1 /\ [][NextStat]_vars

\* Interrupt requests from the three sources and their service: guest
\* writes that arm the timer (TAC, TIMA), the LCD status interrupt (STAT)
\* and the joypad (row select), that enable the interrupts and that clear
\* IF; timer ticks of one period, PPU ticks of no cycles, presses of A, and
\* service_interrupt for each interrupt.
NextReq ==
    \/ GuestWrite(TIMER_CONTROLLER, \h05)
    \/ GuestWrite(TIMER_ADDRESS, \hFF)
    \/ GuestWrite(LCD_STATUS_ADDRESS, \h60)
    \/ GuestWrite(KEY_ADDRESS, \h20)
    \/ GuestWrite(INTERRUPT_ENABLED, \h1F)
    \/ GuestWrite(INTERRUPT_REQUEST, 0)
    \/ TimerTick(16)
    \/ PpuTick(0)
    \/ InputDown(A)
    \/ \E i \in 1..Len(ALL_INTERRUPTS) : ServiceInterrupt(ALL_INTERRUPTS[i])

SpecReq == InitMbc1 /\ [][NextReq]_vars

----------------------------------------------------------------------------
(* Properties of the memory bus and the bank controller.                   *)

\* Offsets within a ROM bank the properties look at.
BankOffsets == {0, ROM_BANK_SIZE - 1}

\* Echo addresses the properties look at.
EchoProbes == {\hE000, \hE123, \hFDFF}

LastWrite(address) == last.op = "write" /\ last.addr = address

\* C1: echo RAM aliases work RAM: in every state reached by guest writes,
\* a read of A in 0xE000..0xFDFF returns what a read of A - 0x2000 returns.
C1_EchoAliasesWorkRam ==
    \A address \in EchoProbes :
        Memory_read(memory, address) = Memory_read(memory, address - \h2000)

\* C2: a guest write into 0x0000..0x7FFF stores nothing: the byte array,
\* the cartridge and the external RAM are as before, and of the whole
\* emulator only the four banking registers may differ.
C2_RomWriteStoresNothing ==
    [][ (last'.op = "write" /\ last'.addr <= \h7FFF) =>
            /\ memory'.rom = memory.rom
            /\ memory'.cart = memory.cart
            /\ memory'.ram_banks = memory.ram_banks
            /\ memory'.rom_bank_mode = memory.rom_bank_mode
            /\ UNCHANGED <<cpu, timer_counter, divider_counter, interrupt_master,
                           scanline_count, screen_buffer, pressed_inputs, panicked>>
      ]_vars

\* A ROM-region write has changed a banking register and nothing else.
C2_Witness ==
    /\ LastWrite(\h2000) /\ last.data = 5
    /\ memory.current_rom_bank = 5
    /\ memory.rom = Memory_init(EmptyArray)
    /\ memory.cart = CartImage(1)

\* C3 as amended: for MBC1, when bits 5-7 of current_rom_bank are zero (as
\* they are after construction), after write(0x2000, n) with n in 1..31 a
\* read of 0x4000 + k returns cartridge[n * 0x4000 + k], and after
\* write(0x2000, 0) it returns cartridge[0x4000 + k].
C3_BankSelectFromLowBanks ==
    [][ ( /\ memory.rom_bank_mode = "MBC1"
          /\ BitAnd(memory.current_rom_bank, 224) = 0
          /\ last'.op = "write" /\ last'.addr = \h2000
          /\ last'.data \in 0..31 ) =>
            \A k \in BankOffsets :
                Memory_read(memory', \h4000 + k) =
                    Cartridge_read(memory'.cart,
                        (IF last'.data = 0 THEN 1 ELSE last'.data) * ROM_BANK_SIZE + k)
      ]_vars

\* write(0x2000, 5) has mapped bank 5: 0x4000 reads cartridge[0x14000].
C3_Witness ==
    /\ memory.rom_bank_mode = "MBC1"
    /\ LastWrite(\h2000) /\ last.data = 5
    /\ Memory_read(memory, \h4000) = ArrayGet(memory.cart, \h14000)
    /\ Memory_read(memory, \h4000) /= ArrayGet(memory.cart, 0)

\* C3 as stated: for MBC1, in any state, after write(0x2000, n) with n in
\* 1..31 a read of 0x4000 + k returns cartridge[n * 0x4000 + k], and after
\* write(0x2000, 0) it returns cartridge[0x4000 + k].
C3_BankSelectAnywhere ==
    ( /\ memory.rom_bank_mode = "MBC1"
      /\ LastWrite(\h2000)
      /\ last.data \in 0..31 ) =>
        \A k \in BankOffsets :
            Memory_read(memory, \h4000 + k) =
                Cartridge_read(memory.cart,
                    (IF last.data = 0 THEN 1 ELSE last.data) * ROM_BANK_SIZE + k)

\* C4: for MBC1, in any banking state, write(0x2000, n) with n in
\* {0x00, 0x20, 0x40, 0x60} leaves current_rom_bank in {0x01, 0x21, 0x41, 0x61}.
C4_ZeroFieldForcedToOne ==
    ( /\ memory.rom_bank_mode = "MBC1"
      /\ LastWrite(\h2000)
      /\ last.data \in {\h00, \h20, \h40, \h60} ) =>
        memory.current_rom_bank \in {\h01, \h21, \h41, \h61}

\* C5: current_rom_bank >= 1 in every reachable state, the initial one
\* included.
C5_RomBankAtLeastOne == memory.current_rom_bank >= 1

----------------------------------------------------------------------------
(* Properties of the timer and the LCD.                                    *)

\* C6: in every reachable state and for every byte v, right after the guest
\* write of v to 0xFF04 a read of 0xFF04 returns 0.
C6_DivWriteResets ==
    LastWrite(DIVIDER_REGISTER) => read_memory(Self, DIVIDER_REGISTER) = 0

\* The guest has written 0xFF to DIV after a timer tick, and DIV reads 0.
C6_Witness ==
    /\ LastWrite(DIVIDER_REGISTER) /\ last.data = \hFF
    /\ ticks > 0
    /\ read_memory(Self, DIVIDER_REGISTER) = 0

LY == Memory_read(memory, SCANLINE_ADDRESS)

\* C8: with no guest write to 0xFF44, LY stays in 0..153, and a PPU tick
\* with the LCD enabled leaves LY alone or takes it from n to (n + 1) mod 154.
C8_LyCyclesModulo154 ==
    /\ LY \in 0..153
    /\ [][ /\ LY' \in 0..153
           /\ (last'.op = "ppu" /\ lcd_enabled(Self)) =>
                  (LY' = LY \/ LY' = (LY + 1) % 154)
         ]_vars

\* A tick of one line has taken LY from 153 back to 0: the LCD is on, the
\* VBlank of this frame has been requested and line 143 has been drawn.
C8_Witness ==
    /\ last.op = "ppu" /\ last.data = 456
    /\ lcd_enabled(Self)
    /\ LY = 0
    /\ scanline_count = 456
    /\ tbit(read_memory(Self, INTERRUPT_REQUEST), 0)
    /\ 143 \in DOMAIN screen_buffer

\* C10: a timer tick that finds the timer enabled, the counter due and TIMA
\* at 0xFF sets TIMA to TMA and sets bit 2 of IF.
C10_OverflowReloadsTma ==
    [][ ( /\ last'.op = "timer"
          /\ ticks' = ticks + 1
          /\ clock_enabled(Self)
          /\ timer_counter - last'.data <= 0
          /\ read_memory(Self, TIMER_ADDRESS) = \hFF ) =>
            /\ Memory_read(memory', TIMER_ADDRESS) = Memory_read(memory', TIMER_MODULATOR)
            /\ tbit(Memory_read(memory', INTERRUPT_REQUEST), 2)
      ]_vars

----------------------------------------------------------------------------
(* Properties of the frame loop and of OAM DMA.                            *)

\* C7: a call of Emulator::update returns, and when it returns the cycles
\* its CPU steps consumed sum to exactly 70,224.
C7_FrameTerminates ==
    (update_pc = "loop") ~>
        (update_pc = "returned" /\ elapsed_cycles = 70224)

OamOffsets == 0..(\hA0 - 1)

\* C9: when the guest write of v to 0xFF46 completes, read(0xFE00 + i)
\* equals read((v << 8) + i) for every i in 0..0x9F, and nothing but the
\* bytes 0xFE00..0xFE9F of the byte array has changed.
C9_DmaCopiesPage ==
    [][ (last'.op = "write" /\ last'.addr = DMA_ADDRESS /\ ~panicked') =>
            /\ \A i \in OamOffsets :
                  read_memory(Self', \hFE00 + i) = read_memory(Self', last'.data * 256 + i)
            /\ \A address \in (DOMAIN memory.rom) \cup (DOMAIN memory'.rom) :
                  address \notin \hFE00..\hFE9F =>
                      ArrayGet(memory'.rom, address) = ArrayGet(memory.rom, address)
            /\ [memory' EXCEPT !.rom = memory.rom] = memory
            /\ UNCHANGED <<cpu, timer_counter, divider_counter, interrupt_master,
                           scanline_count, screen_buffer, pressed_inputs>>
      ]_vars

\* A DMA from work RAM has copied non-zero bytes to both ends of OAM while
\* external RAM is enabled and a ROM bank is selected.
C9_Witness ==
    /\ LastWrite(DMA_ADDRESS) /\ last.data = \hC0
    /\ ~panicked
    /\ read_memory(Self, \hFE00) = \h0A
    /\ read_memory(Self, \hFE9F) = \h0A
    /\ memory.current_rom_bank = \h0A
    /\ memory.enable_ram

----------------------------------------------------------------------------
(* Properties of interrupt dispatch.                                       *)

IF_reg == read_memory(Self, INTERRUPT_REQUEST)

IE_reg == read_memory(Self, INTERRUPT_ENABLED)

\* The interrupts requested and enabled, among bits 0..4.
Pending == BitAnd(BitAnd(IF_reg, IE_reg), \h1F)

\* The lowest set bit of a non-zero byte, as a mask.
RECURSIVE LowestBit(_)
LowestBit(byte) == IF byte % 2 = 1 THEN 1 ELSE 2 * LowestBit(byte \div 2)

\* The vector of the interrupt with mask bit: 0x40, 0x48, 0x50, 0x58, 0x60.
Vector(bit) ==
    CASE bit = 1 -> \h40
      [] bit = 2 -> \h48
      [] bit = 4 -> \h50
      [] bit = 8 -> \h58
      [] bit = 16 -> \h60

\* C11: interrupt dispatch leaves PC, IME and IF alone when IME is clear or
\* no interrupt is both requested and enabled; otherwise it services exactly
\* the pending interrupt of the lowest bit: PC at its vector, its IF bit
\* cleared, the other IF bits as they were.
C11_DispatchLowestPending ==
    [][ last'.op = "interrupts" =>
            IF ~interrupt_master \/ Pending = 0
            THEN /\ cpu'.pc = cpu.pc
                 /\ interrupt_master' = interrupt_master
                 /\ IF_reg' = IF_reg
            ELSE /\ cpu'.pc = Vector(LowestBit(Pending))
                 /\ IF_reg' = IF_reg - LowestBit(Pending)
      ]_vars

\* C12: servicing an interrupt clears IME and that interrupt's IF bit, takes
\* SP down by 2 with the old PC readable at the new SP (low byte at SP, high
\* byte at SP + 1), and sets PC to the interrupt's vector.
C12_ServicePushesPc ==
    [][ last'.op = "service" =>
            /\ ~interrupt_master'
            /\ IF_reg' = BitAnd(IF_reg, Not8(last'.data))
            /\ cpu'.sp = (cpu.sp - 2) % 65536
            /\ read_memory(Self', cpu'.sp) = cpu.pc % 256
            /\ read_memory(Self', (cpu'.sp + 1) % 65536) = cpu.pc \div 256
            /\ cpu'.pc = Vector(last'.data)
      ]_vars

----------------------------------------------------------------------------
(* Properties of the LCD controller.                                       *)

STAT == read_memory(Self, LCD_STATUS_ADDRESS)

\* C13: a PPU tick with LCDC bit 7 clear leaves LY = 0, the scanline counter
\* at 456 and STAT bits 1:0 = 1, requests no VBlank interrupt and leaves the
\* framebuffer as it was.
C13_LcdOffHoldsLineZero ==
    [][ (last'.op = "ppu" /\ ~lcd_enabled(Self) /\ ~panicked') =>
            /\ LY' = 0
            /\ scanline_count' = 456
            /\ BitAnd(STAT', 3) = 1
            /\ tbit(IF_reg', 0) <=> tbit(IF_reg, 0)
            /\ screen_buffer' = screen_buffer
      ]_vars

\* A tick with the LCD off, after the LCD drew line 1 and was switched off.
C13_Witness ==
    /\ last.op = "ppu"
    /\ ~lcd_enabled(Self)
    /\ ~panicked
    /\ 1 \in DOMAIN screen_buffer
    /\ LY = 0 /\ scanline_count = 456 /\ BitAnd(STAT, 3) = 1

\* C19: a PPU tick with the LCD enabled requests the VBlank interrupt when
\* it takes LY from 143 to 144, and any other tick leaves IF bit 0 as it was.
C19_VBlankAtLine144 ==
    [][ (last'.op = "ppu" /\ lcd_enabled(Self) /\ ~panicked') =>
            IF LY = 143 /\ LY' = 144
            THEN tbit(IF_reg', 0)
            ELSE tbit(IF_reg', 0) <=> tbit(IF_reg, 0)
      ]_vars

\* The tick that entered line 144 has requested VBlank.
C19_Witness ==
    /\ last.op = "ppu" /\ last.data = 456
    /\ lcd_enabled(Self)
    /\ ~panicked
    /\ LY = 144
    /\ scanline_count = 456
    /\ IF_reg = 1

\* The mode of the line: 1 in lines 144..153, else by the T-states elapsed
\* in the line: 2 for 0..79, 3 for 80..251, 0 for 252..455.
ModeOf(line, count) ==
    IF line >= 144 THEN 1
    ELSE IF 456 - count <= 79 THEN 2
    ELSE IF 456 - count <= 251 THEN 3
    ELSE 0

\* C20: after a PPU tick with the LCD enabled, STAT bits 1:0 hold the mode
\* of the current line and scanline counter.
C20_StatHoldsMode ==
    [][ (last'.op = "ppu" /\ lcd_enabled(Self) /\ ~panicked') =>
            BitAnd(STAT', 3) = ModeOf(LY', scanline_count')
      ]_vars

----------------------------------------------------------------------------
(* Properties of the joypad.                                               *)

\* The byte the guest wrote to 0xFF00: the row select.
KeysWritten == Memory_read(memory, KEY_ADDRESS)

\* The row of input is selected: its select bit is 0.
RowSelected(input) == ~tbit(KeysWritten, select_location(input))

Held(input) == BitAnd(pressed_inputs, input) = input

\* C14: input_down(b) sets IF bit 4 when b was not pressed before the call
\* and b's row is selected; otherwise it requests nothing: IF is unchanged.
C14_PressRequestsJoypad ==
    [][ last'.op = "input_down" =>
            IF ~Held(last'.data) /\ RowSelected(last'.data)
            THEN tbit(IF_reg', 4)
            ELSE IF_reg' = IF_reg
      ]_vars

\* C15: a read of 0xFF00 returns bits 7-6 set, bits 5-4 as written, and bit
\* k of the low nibble clear exactly when a pressed button of a selected
\* row has bit location k.
C15_JoypadReadsSelectedRows ==
    LET r == read_memory(Self, KEY_ADDRESS)
    IN  /\ tbit(r, 7) /\ tbit(r, 6)
        /\ tbit(r, 5) <=> tbit(KeysWritten, 5)
        /\ tbit(r, 4) <=> tbit(KeysWritten, 4)
        /\ \A k \in 0..3 :
              ~tbit(r, k) <=>
                  \E i \in 1..Len(ALL_INPUTS) :
                      /\ bit_location(ALL_INPUTS[i]) = k
                      /\ Held(ALL_INPUTS[i])
                      /\ RowSelected(ALL_INPUTS[i])

----------------------------------------------------------------------------
(* Properties of reads and of construction.                                *)

\* C16: a guest read of the switchable ROM bank returns a byte in every
\* reachable state: the cartridge offset of 0x4000..0x7FFF never runs past
\* the cartridge.
C16_BankReadNeverPanics ==
    \A k \in BankOffsets : read_memory(Self, \h4000 + k) /= PANIC

\* The cartridge-type byte at offset 0x147.
rbm_byte == Cartridge_read(memory.cart, RBM_ADDRESS)

\* C17: construction from a cartridge whose type byte is not one of 0x00,
\* 0x01, 0x02, 0x03, 0x05, 0x06 does not abort (it returns an error), and
\* 0x00 maps to NoMBC, 0x01-0x03 to MBC1, 0x05-0x06 to MBC2.
C17_UnknownTypeIsAnError ==
    /\ (last.op = "init" /\ rbm_byte \notin {0, 1, 2, 3, 5, 6}) => ~panicked
    /\ rbm_byte = 0 => memory.rom_bank_mode = "No"
    /\ rbm_byte \in {1, 2, 3} => memory.rom_bank_mode = "MBC1"
    /\ rbm_byte \in {5, 6} => memory.rom_bank_mode = "MBC2"

----------------------------------------------------------------------------
(* Properties of the steps of the frame loop.                              *)

\* C18: the frame loop feeds each CPU step's cycles to the timer and then
\* to the PPU and runs interrupt dispatch before the next step: an interrupt
\* that is requested and enabled with IME set while the loop runs is
\* dispatched, which clears IME.
C18_LatchedInterruptDispatched ==
    (update_pc = "loop" /\ interrupt_master /\ Pending /= 0) ~> ~interrupt_master

----------------------------------------------------------------------------
(* Properties of the LCD status interrupts.                                *)

\* C21: the mode interrupt is requested on entering a mode only.  A PPU
\* tick that finds the LCD enabled and the PPU in the mode the tick before
\* it already found (mode 2: the same line below 144 with less than its 456
\* T-states left and at least 376; mode 1: a line from 145 on), with the
\* coincidence interrupt disabled (STAT bit 6 clear), leaves IF bit 1 as it
\* was.
C21_ModeInterruptOnEntryOnly ==
    [][ ( /\ last'.op = "ppu"
          /\ lcd_enabled(Self)
          /\ ~tbit(STAT, 6)
          /\ \/ LY < 144 /\ scanline_count < 456 /\ scanline_count >= 376
             \/ LY >= 145 ) =>
            (tbit(IF_reg', 1) <=> tbit(IF_reg, 1))
      ]_vars

\* C22: a PPU tick that finds the LCD enabled compares the line it finds
\* with LYC.  If they are equal STAT bit 2 is set after the tick and, with
\* STAT bit 6 set, so is IF bit 1; if they differ STAT bit 2 is clear after
\* the tick and, with no mode interrupt enabled (STAT bits 3-5 clear), IF
\* bit 1 is as it was.  STAT bits 3-7 are as they were.
C22_CoincidenceFlagAndInterrupt ==
    [][ (last'.op = "ppu" /\ lcd_enabled(Self)) =>
            /\ IF LY = read_memory(Self, \hFF45)
               THEN /\ tbit(STAT', 2)
                    /\ tbit(STAT, 6) => tbit(IF_reg', 1)
               ELSE /\ ~tbit(STAT', 2)
                    /\ BitAnd(STAT, \h38) = 0 =>
                           (tbit(IF_reg', 1) <=> tbit(IF_reg, 1))
            /\ STAT' \div 8 = STAT \div 8
      ]_vars

\* A tick of no cycles found line 1 equal to LYC with the coincidence
\* interrupt enabled: STAT bit 2 and IF bit 1 are set.
C22_Witness ==
    /\ last.op = "ppu" /\ last.data = 0
    /\ lcd_enabled(Self)
    /\ scanline_count = 456
    /\ LY = 1 /\ read_memory(Self, \hFF45) = 1
    /\ STAT = \h44
    /\ tbit(IF_reg, 1)

\* C23: a PPU tick that finds the LCD enabled neither panics nor leaves the
\* scanline counter above the 456 T-states of a line, and a tick of at
\* least the T-states left in the line enters the next line (LY + 1, or 0
\* after 153) with the counter at 456.
C23_CounterNeverUnderflows ==
    [][ (last'.op = "ppu" /\ lcd_enabled(Self)) =>
            /\ ~panicked'
            /\ scanline_count' <= 456
            /\ last'.data >= scanline_count =>
                   /\ LY' = (LY + 1) % 154
                   /\ scanline_count' = 456
      ]_vars

----------------------------------------------------------------------------
(* Properties of the timer.                                                *)

\* C24: a timer tick of c T-states that finds the timer enabled (TAC bit 2
\* set), with the period p of TAC bits 1:0 (1024, 16, 64, 256), spans
\* c \div p or c \div p + 1 period ends, and TIMA advances by as many (where
\* that does not overflow TIMA); a timer tick that finds the timer disabled
\* leaves TIMA and IF as they were.
C24_TimaOncePerPeriod ==
    [][ last'.op = "timer" =>
            LET tac == read_memory(Self, TIMER_CONTROLLER)
                tima == read_memory(Self, TIMER_ADDRESS)
                p == CASE tac % 4 = 0 -> 1024
                       [] tac % 4 = 1 -> 16
                       [] tac % 4 = 2 -> 64
                       [] tac % 4 = 3 -> 256
                n == last'.data \div p
            IN  IF tbit(tac, 2)
                THEN tima + n + 1 <= \hFF =>
                         read_memory(Self', TIMER_ADDRESS) \in {tima + n, tima + n + 1}
                ELSE /\ read_memory(Self', TIMER_ADDRESS) = tima
                     /\ IF_reg' = IF_reg
      ]_vars

----------------------------------------------------------------------------
(* Properties of external RAM and of the upper bank register.              *)

\* C25: external RAM is gated by enable_ram.  While it is false a read of an
\* address in 0xA000..0xBFFF returns 0xFF and a write there leaves the RAM
\* banks as they are; while it is true the read returns the byte of
\* ram_banks at (address - 0xA000) + current_ram_bank * 0x2000.
C25_ExternalRamGated ==
    [][ \A address \in MemAddrs \cap (\hA000..\hBFFF) :
            /\ ~memory.enable_ram => read_memory(Self, address) = \hFF
            /\ memory.enable_ram =>
                   read_memory(Self, address) =
                       ArrayGet(memory.ram_banks,
                                (address - \hA000) + memory.current_ram_bank * \h2000)
            /\ (~memory.enable_ram /\ last'.op = "write" /\ last'.addr = address) =>
                   memory'.ram_banks = memory.ram_banks
      ]_vars

\* C26: on an MBC1 cartridge a write of v to 0x4000..0x5FFF in ROM mode
\* (enable_rom, the last write to 0x6000..0x7FFF had bit 0 clear) sets bits
\* 5-6 of current_rom_bank to v & 3 and leaves its low five bits (here
\* non-zero) and current_ram_bank alone; in RAM mode it sets
\* current_ram_bank to v & 3 and leaves current_rom_bank alone; a write of
\* w to 0x6000..0x7FFF selects RAM mode iff bit 0 of w is set.
C26_UpperBankRegister ==
    [][ (last'.op = "write" /\ memory.rom_bank_mode = "MBC1") =>
            /\ (last'.addr \in \h4000..\h5FFF /\ memory.enable_rom
                    /\ memory.current_rom_bank % 32 /= 0) =>
                   /\ (memory'.current_rom_bank \div 32) % 4 = last'.data % 4
                   /\ memory'.current_rom_bank % 32 = memory.current_rom_bank % 32
                   /\ memory'.current_ram_bank = memory.current_ram_bank
            /\ (last'.addr \in \h4000..\h5FFF /\ ~memory.enable_rom) =>
                   /\ memory'.current_ram_bank = last'.data % 4
                   /\ memory'.current_rom_bank = memory.current_rom_bank
            /\ last'.addr \in \h6000..\h7FFF =>
                   (memory'.enable_rom <=> last'.data % 2 = 0)
      ]_vars

----------------------------------------------------------------------------
(* Properties of scanline rendering.                                       *)

\* C27: when a PPU tick with the LCD and the background enabled takes LY
\* from 153 back to 0, every visible line 0..143 has been rendered into the
\* framebuffer (the background palette maps no colour to black, so a
\* rendered line holds a non-zero shade), and no line from 144 on is ever
\* rendered.
C27_EveryVisibleLineRendered ==
    [][ /\ (last'.op = "ppu" /\ lcd_enabled(Self) /\ LY = 153 /\ LY' = 0
               /\ tbit(read_memory(Self, LCD_CONTROL_ADDRESS), 0)) =>
               \A line \in 0..143 : line \in DOMAIN screen_buffer'
        /\ \A line \in DOMAIN screen_buffer' : line <= 143
      ]_vars

----------------------------------------------------------------------------
(* Properties of the interrupt request register.                           *)

\* C28: no request or service loses a pending request.  A timer tick, a PPU
\* tick and a press leave every set bit of IF set, set no bit other than
\* the bits of their own interrupts (timer: 4; PPU: 1 and 2; joypad: 16)
\* and leave IE as it was; service_interrupt(i) clears bit i of IF and
\* leaves the other bits of IF and IE as they were.
C28_RequestsAreNotLost ==
    [][ /\ last'.op \in {"timer", "ppu", "input_down"} =>
               /\ BitAnd(IF_reg, IF_reg') = IF_reg
               /\ BitAnd(IF_reg', Not8(IF_reg)) \in
                      (CASE last'.op = "timer" -> {0, Timer}
                         [] last'.op = "ppu" -> {0, VBlank, LCD, VBlank + LCD}
                         [] last'.op = "input_down" -> {0, Joypad})
               /\ IE_reg' = IE_reg
        /\ last'.op = "service" =>
               /\ IF_reg' = BitAnd(IF_reg, Not8(last'.data))
               /\ IE_reg' = IE_reg
      ]_vars

\* The timer, the LCD and the joypad have each requested their interrupt,
\* and the LCD interrupt has then been serviced: IF holds the other two.
C28_Witness ==
    /\ last.op = "service" /\ last.data = LCD
    /\ IF_reg = Timer + Joypad
    /\ IE_reg = \h1F
    /\ ticks > 0
    /\ pressed_inputs = A

====
